---- MODULE Spec2Model ----
(***************************************************************************)
(* AI-Studio-Simulator: the retry-with-backoff request orchestrator, the   *)
(* mocked generation client, the generation flow of the application and    *)
(* the localStorage history store.                                         *)
(*                                                                         *)
(* The repository holds three variants of the application:                 *)
(*   "inline"   src/src/App.tsx: helpers inlined in the component file     *)
(*   "enhanced" src/unnamed/part_000 (AppEnhanced) on the shared utilities *)
(*   "basic"    src/unnamed/part_001 (App) on the shared utilities         *)
(* The shared utilities are src/unnamed/part_002 (apiUtils) and            *)
(* src/unnamed/part_004 (storageUtils).                                    *)
(*                                                                         *)
(* One step of the model is one macrotask of the browser's event loop (a   *)
(* user event or a timer callback) together with the microtasks (promise   *)
(* continuations) it triggers, which run to completion before the next     *)
(* macrotask starts.                                                       *)
(***************************************************************************)
EXTENDS Integers, Sequences, FiniteSets, TLC

VARIABLES
    variant,       \* which of the three application variants is running
    storage,       \* the value kept under the history key of localStorage
    run,           \* history store harness: the saves made since empty storage
    rt,            \* retry harness: one retryWithBackoff call on a generic thunk
    state,         \* the component's AppState
    retryAttempt,  \* the component's retryAttempt counter
    mounted,       \* mounted.current
    flow,          \* the generation flows started so far
    upload         \* image preparer harness: one file going through an upload

vars ==
    <<variant, storage, run, rt, state, retryAttempt, mounted, flow, upload>>

Variants == {"inline", "enhanced", "basic"}

\* The implementation of the helpers a variant runs: the inlined ones of
\* App.tsx or the shared utilities.
ImplOf(v) == IF v = "inline" THEN "inline" ELSE "utils"

(***************************************************************************)
(* Bounds of the model.                                                    *)
(***************************************************************************)
MaxIds == 6       \* identifiers the store harness saves and removes
MaxResaved == 1   \* identifiers the store harness saves with a second payload

\* Sequence helpers.
Take(s, n) == SubSeq(s, 1, IF n < Len(s) THEN n ELSE Len(s))

RECURSIVE FilterOutId(_, _)
FilterOutId(s, id) ==
    IF s = <<>> THEN <<>>
    ELSE IF Head(s).id = id THEN FilterOutId(Tail(s), id)
         ELSE <<Head(s)>> \o FilterOutId(Tail(s), id)

Ids(s) == [i \in 1..Len(s) |-> s[i].id]

Min(a, b) == IF a < b THEN a ELSE b

(***************************************************************************)
(* History store.                                                          *)
(***************************************************************************)
MAX_HISTORY == 5

\* A Generation record.
Gen(id, imageUrl, prompt, style, createdAt) ==
    [id |-> id, imageUrl |-> imageUrl, prompt |-> prompt, style |-> style,
     createdAt |-> createdAt]

\* What localStorage holds under the history key: nothing, text that does not
\* parse, text that parses to something that is not an array, or an array.
Absent == [kind |-> "absent", items |-> <<>>]
Corrupt == [kind |-> "corrupt", items |-> <<>>]
NonArray == [kind |-> "nonarray", items |-> <<>>]
Stored(items) == [kind |-> "list", items |-> items]

\* getHistory: what the call returns. isList tells whether the value returned
\* is an array; items are its elements when it is.
getHistory(impl, st) ==
    IF st.kind = "list" THEN [isList |-> TRUE, items |-> st.items]
    ELSE IF st.kind = "nonarray" /\ impl = "utils"
         THEN [isList |-> FALSE, items |-> <<>>]
         ELSE [isList |-> TRUE, items |-> <<>>]

\* The list saveGeneration computes from the history h and the entry g.
NewHistoryUtilsNoTrim(h, g) == <<g>> \o FilterOutId(h, g.id)
NewHistoryUtilsNoDedupe(h, g) == <<g>> \o Take(h, MAX_HISTORY - 1)
NewHistoryUtils(h, g) ==
    <<g>> \o Take(FilterOutId(h, g.id), MAX_HISTORY - 1)

NewHistoryInlineNoDedupe(h, g) == Take(<<g>> \o h, MAX_HISTORY)
NewHistoryInline(h, g) == Take(<<g>> \o FilterOutId(h, g.id), MAX_HISTORY)

\* saveGeneration: the storage after the call, whether the call wrote it and
\* whether the call threw.  writeOk tells whether localStorage.setItem
\* succeeds (it throws when the quota is exceeded).  The shared utility wraps
\* its body in try/catch, and the filter call in it throws on a value that is
\* not an array; the inlined helper has no try/catch.
saveGeneration(impl, st, g, writeOk) ==
    LET h == getHistory(impl, st) IN
    IF impl = "utils"
    THEN IF h.isList /\ writeOk
         THEN [storage |-> Stored(NewHistoryUtils(h.items, g)),
               wrote |-> TRUE, threw |-> FALSE]
         ELSE [storage |-> st, wrote |-> FALSE, threw |-> FALSE]
    ELSE IF writeOk
         THEN [storage |-> Stored(NewHistoryInline(h.items, g)),
               wrote |-> TRUE, threw |-> FALSE]
         ELSE [storage |-> st, wrote |-> FALSE, threw |-> TRUE]

\* removeFromHistory (shared utility only).
RemoveFilterTrimmed(h, id) == Take(FilterOutId(h, id), MAX_HISTORY)
RemoveFilter(h, id) == FilterOutId(h, id)

removeFromHistory(st, id, writeOk) ==
    LET h == getHistory("utils", st) IN
    IF h.isList /\ writeOk
    THEN [storage |-> Stored(RemoveFilter(h.items, id)),
          wrote |-> TRUE, threw |-> FALSE]
    ELSE [storage |-> st, wrote |-> FALSE, threw |-> FALSE]

\* clearHistory (shared utility only): removes the key.
clearHistory(st) == [storage |-> Absent, wrote |-> TRUE, threw |-> FALSE]

(***************************************************************************)
(* History store harness: the store's operations called in any order on    *)
(* any stored value.  localStorage outlives the page and is shared by      *)
(* every script of the origin, so the value found under the key is an      *)
(* input of the store, not something it controls.                          *)
(***************************************************************************)
StoreEntry(id, prompt) == Gen(id, "img", prompt, "Editorial", id)

\* The entries the harness saves: every identifier with the first payload,
\* the identifiers up to MaxResaved with the second one too.
StoreEntries ==
    {StoreEntry(id, "warm portrait") : id \in 1..MaxIds}
        \cup {StoreEntry(id, "night city") : id \in 1..MaxResaved}

\* A stored list of k entries, identifiers k, k-1, .., 1.
RECURSIVE PriorList(_)
PriorList(k) ==
    IF k = 0 THEN <<>>
    ELSE <<StoreEntry(k, "warm portrait")>> \o PriorList(k - 1)

InitialStores ==
    {Absent, Corrupt, NonArray}
        \cup {Stored(PriorList(k)) : k \in {0, 2, MAX_HISTORY, MAX_HISTORY + 2}}

IsEmptyStore(st) == st = Absent
StartsEmpty(st) == st \in {Absent, Stored(<<>>)}

\* No entry: the value of run.saved when the last call saved nothing.
NoEntry == StoreEntry(0, "")

\* The prompt of the entry of h with identifier id, "" when h has none.
PromptOf(h, id) ==
    IF \E i \in 1..Len(h) : h[i].id = id
    THEN h[CHOOSE i \in 1..Len(h) : h[i].id = id].prompt
    ELSE ""

\* What the harness remembers of the calls made:
\*   n           the largest identifier issued so far
\*   valid, ids  the identifiers saved, while only new identifiers were saved
\*   fromEmpty   the calls started on empty storage
\*   last, wrote, threw   the last call, whether it wrote, whether it threw
\*   saved       the entry the last call saved (calls from empty storage)
\*   removed     the identifier the last call removed
\*   prev        the prompt the entry with that identifier had before the call
NoRun ==
    [n |-> 0, valid |-> FALSE, ids |-> <<>>, fromEmpty |-> FALSE,
     last |-> "none",
     wrote |-> FALSE, threw |-> FALSE, saved |-> NoEntry, removed |-> 0,
     prev |-> ""]

\* The values the variables of the other harnesses keep in this one.
RtNone == [pc |-> "none"]
StateNone == [isLoading |-> FALSE]
FlowNone == <<>>
UploadNone == [pc |-> "none"]

StoreInit ==
    /\ variant \in {"inline", "enhanced"}
    /\ storage \in InitialStores
    /\ run = [NoRun EXCEPT !.n = Len(storage.items),
                           !.valid = IsEmptyStore(storage),
                           !.fromEmpty = StartsEmpty(storage)]
    /\ rt = RtNone
    /\ state = StateNone
    /\ retryAttempt = 0
    /\ mounted = TRUE
    /\ flow = FlowNone
    /\ upload = UploadNone

IdsOf(seq) == {seq[i] : i \in 1..Len(seq)}

\* An identifier is the time of its generation (Date.now()), so a new one is
\* larger than every one before it; the harness also saves again the
\* identifiers up to MaxResaved.  run.ids records the identifiers saved, in
\* order, for as long as every call since the empty storage was a successful
\* save of a new identifier.
StoreSave(g, writeOk) ==
    LET r == saveGeneration(ImplOf(variant), storage, g, writeOk) IN
    /\ \/ g.id = run.n + 1
       \/ g.id <= Min(MaxResaved, run.n)
    /\ storage' = r.storage
    /\ run' = LET go == /\ run.valid
                          /\ writeOk
                          /\ g.id \notin IdsOf(run.ids)
                          /\ Len(run.ids) <= MAX_HISTORY
                   track == run.fromEmpty /\ r.wrote
               IN [n |-> IF g.id > run.n THEN g.id ELSE run.n,
                   valid |-> go,
                   ids |-> IF go THEN Append(run.ids, g.id) ELSE <<>>,
                   fromEmpty |-> run.fromEmpty,
                   last |-> "save", wrote |-> r.wrote, threw |-> r.threw,
                   saved |-> IF track THEN g ELSE NoEntry,
                   removed |-> 0,
                   prev |-> IF track THEN PromptOf(storage.items, g.id)
                            ELSE ""]
    /\ UNCHANGED <<variant, rt, state, retryAttempt, mounted, flow, upload>>

StoreRemove(id, writeOk) ==
    LET r == removeFromHistory(storage, id, writeOk) IN
    /\ ImplOf(variant) = "utils"
    /\ storage' = r.storage
    /\ run' = [n |-> run.n, valid |-> FALSE, ids |-> <<>>,
               fromEmpty |-> run.fromEmpty,
               last |-> "remove", wrote |-> r.wrote, threw |-> r.threw,
               saved |-> NoEntry, removed |-> id,
               prev |-> PromptOf(storage.items, id)]
    /\ UNCHANGED <<variant, rt, state, retryAttempt, mounted, flow, upload>>

StoreClear ==
    LET r == clearHistory(storage) IN
    /\ ImplOf(variant) = "utils"
    /\ storage' = r.storage
    /\ run' = [n |-> run.n, valid |-> TRUE, ids |-> <<>>, fromEmpty |-> TRUE,
               last |-> "clear", wrote |-> r.wrote, threw |-> r.threw,
               saved |-> NoEntry, removed |-> 0, prev |-> ""]
    /\ UNCHANGED <<variant, rt, state, retryAttempt, mounted, flow, upload>>

StoreNext ==
    \/ \E g \in StoreEntries, writeOk \in BOOLEAN : StoreSave(g, writeOk)
    \/ \E id \in 1..MaxIds, writeOk \in BOOLEAN : StoreRemove(id, writeOk)
    \/ StoreClear

SpecStore == StoreInit /\ [][StoreNext]_vars

\* The persisted history as getHistory of the running variant returns it.
History == getHistory(ImplOf(variant), storage)

\* C9: every History Store write (saveGeneration, removeFromHistory) leaves at
\* most 5 entries persisted, whatever list was stored before the write.
C9_WriteLeavesAtMostFive ==
    (run.last \in {"save", "remove"} /\ run.wrote)
        => Len(storage.items) <= MAX_HISTORY

\* The last Min(n, 5) identifiers of ids, the most recent first.
LastFirst(ids) ==
    [i \in 1..Min(Len(ids), MAX_HISTORY) |-> ids[Len(ids) - i + 1]]

\* C10: after saveGeneration was called, from empty storage, with n entries
\* of pairwise distinct identifiers e1..en in that order, getHistory returns
\* exactly the last min(n, 5) of them, the most recently recorded first.
C10_LastFiveMostRecentFirst ==
    run.valid => /\ History.isList
                 /\ Ids(History.items) = LastFirst(run.ids)

\* Six distinct identifiers were saved and the oldest was dropped.
C10_Witness ==
    /\ run.valid
    /\ Len(run.ids) = MAX_HISTORY + 1
    /\ Len(History.items) = MAX_HISTORY
    /\ run.ids[1] \notin IdsOf(Ids(History.items))

NoDuplicateIds(items) ==
    \A i, j \in 1..Len(items) : i # j => items[i].id # items[j].id

\* C11: after any sequence of saveGeneration, removeFromHistory and
\* clearHistory calls that started on empty storage, no two persisted entries
\* share an identifier; and when the last call saved an entry (its write done)
\* exactly one entry has its identifier, it is the first, and it carries the
\* payload of that save, whether or not the identifier was present before.
C11_OneEntryPerId ==
    run.fromEmpty
        => /\ History.isList
           /\ NoDuplicateIds(History.items)
           /\ (run.last = "save" /\ run.wrote)
                 => /\ Len(History.items) > 0
                    /\ History.items[1] = run.saved
                    /\ Cardinality({i \in 1..Len(History.items) :
                            History.items[i].id = run.saved.id}) = 1

\* An identifier saved with one payload, two entries later saved again with
\* another: its one entry is first and carries the second payload.
C11_Witness ==
    /\ run.fromEmpty
    /\ run.last = "save"
    /\ run.wrote
    /\ run.prev = "warm portrait"
    /\ run.saved.prompt = "night city"
    /\ Len(storage.items) >= 3
    /\ storage.items[1] = run.saved
    /\ storage.items[Len(storage.items)].id # run.saved.id

\* C12: getHistory, in both implementations, returns a list for every value
\* found under the key, and the empty list when the key is missing, when the
\* text does not parse and when it parses to something that is not a list.
C12_GetHistoryReturnsList ==
    \A impl \in {"inline", "utils"} :
        LET h == getHistory(impl, storage) IN
        /\ h.isList
        /\ storage.kind # "list" => h.items = <<>>

\* The entries of items other than the one with identifier id, in order.
Others(items, id) ==
    LET Keep(e) == e.id # id IN SelectSeq(items, Keep)

\* C14: a removeFromHistory(id) call whose write is done leaves persisted
\* exactly the other entries, in the same relative order; a call made when no
\* entry has that identifier leaves what getHistory returns as it was.  (A
\* call whose write fails changes nothing.)
C14_RemoveKeepsOthers ==
    [][run'.last = "remove"
         => LET id == run'.removed
                old == getHistory("utils", storage)
                new == getHistory("utils", storage')
            IN  /\ (\A i \in 1..Len(old.items) : old.items[i].id # id)
                      => new = old
                /\ run'.wrote
                      => /\ new.isList
                         /\ new.items = Others(old.items, id)
                /\ ~run'.wrote => storage' = storage]_vars

\* An entry that was present was removed, and others are left.
C14_Witness ==
    /\ run.last = "remove"
    /\ run.wrote
    /\ run.prev # ""
    /\ Len(storage.items) >= 2
    /\ run.removed \notin IdsOf(Ids(storage.items))

\* C27: saveGeneration is idempotent: called twice in succession with the
\* same entry, it leaves the persisted value it left after the first call,
\* whatever localStorage held before and whether the writes succeed or not.
C27_SaveIdempotent ==
    \A impl \in {"inline", "utils"}, g \in StoreEntries, w \in BOOLEAN :
        LET once == saveGeneration(impl, storage, g, w).storage
        IN  saveGeneration(impl, once, g, w).storage = once

\* The entry saved last was saved a second time: an entry with its
\* identifier and its prompt was dropped, and it stands first once more, in
\* a history of at most MAX_HISTORY entries.
C27_Witness ==
    /\ run.fromEmpty
    /\ run.last = "save"
    /\ run.wrote
    /\ run.saved # NoEntry
    /\ run.prev = run.saved.prompt
    /\ storage.items[1] = run.saved
    /\ Len(storage.items) \in 2..MAX_HISTORY
    /\ NoDuplicateIds(storage.items)


(***************************************************************************)
(* Errors.  An error is the record of what the code reads of it: its name, *)
(* its message and whether it is a DOMException.                           *)
(***************************************************************************)
Err(name, message, dom) == [name |-> name, message |-> message, dom |-> dom]

\* new Error("Model overloaded"): the overload error of App.tsx's mockApiCall.
OverloadInline == Err("Error", "Model overloaded", FALSE)
\* { message: 'Model overloaded. Please try again.' }: the overload error of
\* the shared mockApiCall, a plain object.
OverloadUtils == Err("none", "Model overloaded. Please try again.", FALSE)
\* new DOMException("Aborted", "AbortError")
AbortInline == Err("AbortError", "Aborted", TRUE)
\* new DOMException('Request aborted', 'AbortError')
AbortUtils == Err("AbortError", "Request aborted", TRUE)
\* Some other failure of a thunk.
TerminalErr == Err("TypeError", "Failed to fetch", FALSE)

Errors == {OverloadInline, OverloadUtils, AbortInline, AbortUtils, TerminalErr}

\* message.includes('Model overloaded'), on the messages above.
IncludesOverloaded(message) ==
    message \in {"Model overloaded", "Model overloaded. Please try again."}

(***************************************************************************)
(* retryWithBackoff.                                                       *)
(***************************************************************************)
RECURSIVE Pow2(_)
Pow2(n) == IF n = 0 THEN 1 ELSE 2 * Pow2(n - 1)

\* The delay of the backoff wait that follows failed attempt `attempt`,
\* with j the jitter drawn.
BackoffDelayDoubled(baseDelay, attempt, j) == baseDelay * Pow2(attempt) + j
BackoffDelay(baseDelay, attempt, j) == baseDelay * Pow2(attempt - 1) + j

\* The catch block of retryWithBackoff: what the call does when attempt
\* number `attempt` of `attempts` failed with err: it rejects with an error
\* or enters a backoff wait.  aborted is signal.aborted; the shared utility
\* takes no signal.
RetryCatchWrapsError(impl, attempt, attempts, aborted, err) ==
    IF IncludesOverloaded(err.message) /\ attempt < attempts
    THEN [do |-> "backoff", error |-> err]
    ELSE [do |-> "reject",
          error |-> Err("Error", "Failed after retries", FALSE)]

RetryCatchKeepsError(impl, attempt, attempts, aborted, err) ==
    IF impl = "inline"
    THEN IF err.message = "Model overloaded" /\ attempt < attempts
         THEN [do |-> "backoff", error |-> err]
         ELSE [do |-> "reject", error |-> err]
    ELSE IF err.dom /\ err.name = "AbortError"
         THEN [do |-> "reject", error |-> err]
         ELSE IF ~IncludesOverloaded(err.message) \/ attempt = attempts
              THEN [do |-> "reject", error |-> err]
              ELSE [do |-> "backoff", error |-> err]

RetryCatchOneMore(impl, attempt, attempts, aborted, err) ==
    IF impl = "inline"
    THEN IF aborted
         THEN [do |-> "reject", error |-> AbortInline]
         ELSE IF err.message = "Model overloaded" /\ attempt <= attempts
              THEN [do |-> "backoff", error |-> err]
              ELSE [do |-> "reject", error |-> err]
    ELSE IF err.dom /\ err.name = "AbortError"
         THEN [do |-> "reject", error |-> err]
         ELSE IF ~IncludesOverloaded(err.message) \/ attempt = attempts + 1
              THEN [do |-> "reject", error |-> err]
              ELSE [do |-> "backoff", error |-> err]

RetryCatch(impl, attempt, attempts, aborted, err) ==
    IF impl = "inline"
    THEN IF aborted
         THEN [do |-> "reject", error |-> AbortInline]
         ELSE IF err.message = "Model overloaded" /\ attempt < attempts
              THEN [do |-> "backoff", error |-> err]
              ELSE [do |-> "reject", error |-> err]
    ELSE IF err.dom /\ err.name = "AbortError"
         THEN [do |-> "reject", error |-> err]
         ELSE IF ~IncludesOverloaded(err.message) \/ attempt = attempts
              THEN [do |-> "reject", error |-> err]
              ELSE [do |-> "backoff", error |-> err]

\* Whether the backoff wait of retryWithBackoff listens to the signal: the
\* wait of App.tsx registers an abort listener that clears the timer and
\* rejects; the wait of the shared utility is a bare setTimeout.
BackoffListens(impl) == impl = "inline"


(***************************************************************************)
(* Retry harness: one retryWithBackoff call on a thunk that may settle any *)
(* way, with the signal raised at any moment.  The value a thunk resolves  *)
(* with is the number of the invocation that produced it.                  *)
(***************************************************************************)
MaxTries == 3     \* the largest maxAttempts the harness passes

BASE_DELAY == 500
Jitters == {100, 120}

NoError == Err("", "", FALSE)
Pending == [kind |-> "pending", value |-> 0, error |-> NoError]
Resolved(v) == [kind |-> "resolved", value |-> v, error |-> NoError]
Rejected(e) == [kind |-> "rejected", value |-> 0, error |-> e]

ThunkOk(v) == [ok |-> TRUE, value |-> v, error |-> NoError]
ThunkErr(e) == [ok |-> FALSE, value |-> 0, error |-> e]

RetryInit ==
    /\ variant = "inline"
    /\ storage = Absent
    /\ run = NoRun
    /\ \E impl \in {"inline", "utils"}, attempts \in 1..MaxTries,
          jitter \in Jitters :
         rt = [pc |-> "idle", impl |-> impl, attempts |-> attempts,
               jitter |-> jitter, attempt |-> 0, aborted |-> FALSE,
               abortAt |-> "none", callsAtAbort |-> 0, calls |-> 0,
               log |-> <<>>, waits |-> <<>>, result |-> Pending]
    /\ state = StateNone
    /\ retryAttempt = 0
    /\ mounted = TRUE
    /\ flow = FlowNone
    /\ upload = UploadNone

notRt == <<variant, storage, run, state, retryAttempt, mounted, flow, upload>>

\* retryWithBackoff is called: the first attempt starts at once.
RtCall ==
    /\ rt.pc = "idle"
    /\ rt' = [rt EXCEPT !.pc = "attempting", !.attempt = 1, !.calls = 1]
    /\ UNCHANGED notRt

RtThunkResolvesKeepsLooping ==
    /\ rt.pc = "attempting"
    /\ rt' = IF rt.attempt < rt.attempts
             THEN [rt EXCEPT !.log = Append(@, ThunkOk(rt.calls)),
                             !.attempt = @ + 1, !.calls = @ + 1]
             ELSE [rt EXCEPT !.pc = "rejected",
                             !.log = Append(@, ThunkOk(rt.calls)),
                             !.result = Rejected(
                                 Err("Error", "Failed after retries", FALSE))]
    /\ UNCHANGED <<variant, storage, run, state, retryAttempt, mounted, flow, upload>>

\* The thunk in flight resolves: the call returns its value.
RtThunkResolves ==
    /\ rt.pc = "attempting"
    /\ rt' = [rt EXCEPT !.pc = "resolved",
                        !.log = Append(@, ThunkOk(rt.calls)),
                        !.result = Resolved(rt.calls)]
    /\ UNCHANGED notRt

RtThunkRejectsWithoutWaiting(err, j) ==
    LET c == RetryCatch(rt.impl, rt.attempt, rt.attempts, rt.aborted, err) IN
    /\ rt.pc = "attempting"
    /\ IF c.do = "backoff"
       THEN rt' = [rt EXCEPT !.log = Append(@, ThunkErr(err)),
                             !.attempt = @ + 1, !.calls = @ + 1]
       ELSE /\ j = 0
            /\ rt' = [rt EXCEPT !.pc = "rejected",
                                !.log = Append(@, ThunkErr(err)),
                                !.result = Rejected(c.error)]
    /\ UNCHANGED notRt

\* The thunk in flight rejects with err: the catch block runs, and arms the
\* backoff wait with jitter j when it retries.
RtThunkRejects(err, j) ==
    LET c == RetryCatch(rt.impl, rt.attempt, rt.attempts, rt.aborted, err) IN
    /\ rt.pc = "attempting"
    /\ IF c.do = "backoff"
       THEN rt' = [rt EXCEPT !.pc = "backoff",
                             !.log = Append(@, ThunkErr(err)),
                             !.waits = Append(@,
                                 BackoffDelay(BASE_DELAY, rt.attempt, j))]
       ELSE /\ j = 0
            /\ rt' = [rt EXCEPT !.pc = "rejected",
                                !.log = Append(@, ThunkErr(err)),
                                !.result = Rejected(c.error)]
    /\ UNCHANGED notRt

\* The timer of the backoff wait fires: the loop starts the next attempt.
RtBackoffElapsed ==
    /\ rt.pc = "backoff"
    /\ rt' = [rt EXCEPT !.pc = "attempting", !.attempt = @ + 1,
                        !.calls = @ + 1]
    /\ UNCHANGED notRt

\* controller.abort(): the abort event is dispatched once.  A backoff wait
\* that listens clears its timer and rejects, and the call rejects with it.
RtAbort ==
    /\ ~rt.aborted
    /\ rt' = IF rt.pc = "backoff" /\ BackoffListens(rt.impl)
             THEN [rt EXCEPT !.aborted = TRUE, !.abortAt = rt.pc,
                             !.callsAtAbort = rt.calls,
                             !.pc = "rejected",
                             !.result = Rejected(AbortInline)]
             ELSE [rt EXCEPT !.aborted = TRUE, !.abortAt = rt.pc,
                             !.callsAtAbort = rt.calls]
    /\ UNCHANGED notRt

RetryNext ==
    \/ RtCall
    \/ RtThunkResolves
    \/ \E err \in Errors, j \in {0, rt.jitter - 1} : RtThunkRejects(err, j)
    \/ RtBackoffElapsed
    \/ RtAbort

SpecRetry == RetryInit /\ [][RetryNext]_vars

RtDone == rt.pc \in {"resolved", "rejected"}

\* C1: if the token is raised while retryWithBackoff is in a backoff wait,
\* the call ends rejected with an AbortError and the thunk is not invoked
\* again, in every retry implementation.
C1_AbortInBackoffCancels ==
    rt.abortAt = "backoff"
        => /\ rt.calls = rt.callsAtAbort
           /\ RtDone => /\ rt.result.kind = "rejected"
                        /\ rt.result.error.name = "AbortError"


\* The errors that are the overload error for an implementation: App.tsx
\* compares the message with the sentinel, the shared utility looks for the
\* sentinel in the message.
OverloadErrors(impl) ==
    IF impl = "inline" THEN {OverloadInline}
    ELSE {OverloadInline, OverloadUtils}

LastLog == rt.log[Len(rt.log)]

\* The token was raised before the call ended.
RtCancelled == rt.abortAt \in {"idle", "attempting", "backoff"}

AllOverload(log) ==
    \A i \in 1..Len(log) :
        ~log[i].ok /\ log[i].error \in OverloadErrors(rt.impl)

\* C3: one retryWithBackoff call invokes the thunk at most maxAttempts times,
\* whatever the thunk does; when every invocation fails with the overload
\* error and the token is never raised, it invokes the thunk exactly
\* maxAttempts times and then rejects with the error of the last attempt.
C3_AtMostMaxAttempts ==
    rt.pc # "none"
        => /\ rt.calls <= rt.attempts
           /\ (RtDone /\ ~RtCancelled /\ AllOverload(rt.log))
                 => /\ rt.calls = rt.attempts
                    /\ Len(rt.log) = rt.attempts
                    /\ rt.result = Rejected(LastLog.error)

\* Three attempts, each failed with the overload error.
C3_Witness ==
    /\ RtDone
    /\ ~rt.aborted
    /\ rt.attempts = 3
    /\ rt.calls = 3
    /\ AllOverload(rt.log)
    /\ rt.result.kind = "rejected"

\* The thunk failed with the overload error on its first k calls and then
\* succeeded.
FailsThenSucceeds(log) ==
    /\ Len(log) > 0
    /\ log[Len(log)].ok
    /\ AllOverload(SubSeq(log, 1, Len(log) - 1))

\* C4: given a thunk that fails with the overload error on its first k calls
\* (k < maxAttempts) and then succeeds, with no cancellation, the call
\* invokes the thunk exactly k+1 times and resolves with the value of call
\* k+1.
C4_RetriesUntilSuccess ==
    (RtDone /\ ~RtCancelled /\ FailsThenSucceeds(rt.log))
        => /\ rt.calls = Len(rt.log)
           /\ Len(rt.log) - 1 < rt.attempts
           /\ rt.result = Resolved(Len(rt.log))

\* k = 2, maxAttempts = 3: exactly 3 calls.
C4_Witness ==
    /\ RtDone
    /\ ~rt.aborted
    /\ rt.attempts = 3
    /\ FailsThenSucceeds(rt.log)
    /\ Len(rt.log) = 3
    /\ rt.calls = 3
    /\ rt.result = Resolved(3)

\* The last attempt failed with a terminal error: one that is neither the
\* overload error nor the cancellation error.
TerminalSettled ==
    /\ rt.pc # "none"
    /\ Len(rt.log) > 0
    /\ ~LastLog.ok
    /\ LastLog.error \notin OverloadErrors(rt.impl)
    /\ LastLog.error.name # "AbortError"

\* C5 as claimed: if the thunk fails with an error that is not the overload
\* error at attempt n, the call rejects with that same error at once: no
\* backoff wait follows and invocation n+1 is never made.
C5_TerminalRejectsWithSameError ==
    TerminalSettled
        => /\ rt.pc = "rejected"
           /\ rt.result = Rejected(LastLog.error)
           /\ rt.calls = Len(rt.log)
           /\ Len(rt.waits) = Len(rt.log) - 1

\* C5 as amended: the call rejects at once, with no backoff wait and no
\* invocation n+1; the error is that same error, except that the
\* retryWithBackoff of App.tsx rejects with a new AbortError when its signal
\* is raised by then.
C5_TerminalRejectsAtOnce ==
    TerminalSettled
        => /\ rt.pc = "rejected"
           /\ rt.result =
                 IF rt.impl = "inline" /\ RtCancelled
                 THEN Rejected(AbortInline)
                 ELSE Rejected(LastLog.error)
           /\ rt.calls = Len(rt.log)
           /\ Len(rt.waits) = Len(rt.log) - 1

\* A terminal error at the second attempt of App.tsx's retryWithBackoff,
\* with the signal raised: the call rejected with an AbortError.
C5_Witness ==
    /\ TerminalSettled
    /\ rt.impl = "inline"
    /\ RtCancelled
    /\ LastLog.error = TerminalErr
    /\ rt.calls = 2
    /\ rt.result = Rejected(AbortInline)

\* The last attempt of the thunk rejected with an AbortError.
ThunkAborted ==
    /\ rt.pc # "none"
    /\ Len(rt.log) > 0
    /\ ~LastLog.ok
    /\ LastLog.error.name = "AbortError"

\* C6: if the thunk itself rejects with the cancellation error at any
\* attempt, the call rejects with an AbortError, with no backoff wait and no
\* further invocation.
C6_ThunkAbortCancels ==
    ThunkAborted
        => /\ rt.pc = "rejected"
           /\ rt.result.error.name = "AbortError"
           /\ rt.calls = Len(rt.log)
           /\ Len(rt.waits) = Len(rt.log) - 1

\* The thunk rejected with an AbortError at its second attempt, the signal
\* not raised, in the shared utility.
C6_Witness ==
    /\ ThunkAborted
    /\ rt.impl = "utils"
    /\ ~rt.aborted
    /\ rt.calls = 2
    /\ rt.result.kind = "rejected"
    /\ rt.result.error = LastLog.error

\* C19: a backoff wait happens only after a failed attempt k with
\* k < maxAttempts, and lasts baseDelay * 2^(k-1) + j with 0 <= j <
\* jitterBound; with baseDelay 500 and jitterBound 100 the first wait lies in
\* [500, 600) and the second in [1000, 1100); no wait follows the last
\* attempt.
C19_BackoffDelays ==
    rt.pc # "none"
        => /\ Len(rt.waits) <= Len(rt.log)
           /\ \A k \in 1..Len(rt.waits) :
                 /\ k < rt.attempts
                 /\ ~rt.log[k].ok
                 /\ rt.waits[k] - BASE_DELAY * Pow2(k - 1) \in 0..(rt.jitter - 1)
                 /\ (rt.jitter = 100 /\ k = 1) => rt.waits[k] \in 500..599
                 /\ (rt.jitter = 100 /\ k = 2) => rt.waits[k] \in 1000..1099
           /\ rt.pc = "backoff" => Len(rt.log) < rt.attempts

\* Three attempts with jitter bound 100: waits of 599 and 1000 ms, and none
\* after the third attempt failed.
C19_Witness ==
    /\ RtDone
    /\ rt.jitter = 100
    /\ rt.attempts = 3
    /\ Len(rt.log) = 3
    /\ rt.waits = <<599, 1000>>

\* C20: attempts are strictly sequential: at most one invocation of the
\* thunk is unsettled at any time, it is unsettled exactly while the call is
\* in an attempt, and every invocation after the first was preceded by a
\* backoff wait that started after the previous invocation settled.
C20_AttemptsSequential ==
    rt.pc # "none"
        => /\ rt.calls - Len(rt.log) \in {0, 1}
           /\ rt.calls - Len(rt.log) = 1 <=> rt.pc = "attempting"
           /\ rt.calls >= 1 => Len(rt.waits) >= rt.calls - 1
           /\ rt.pc = "backoff" => Len(rt.waits) = Len(rt.log)

\* The third invocation is in flight, two have settled, two waits are over.
C20_Witness ==
    /\ rt.pc = "attempting"
    /\ rt.calls = 3
    /\ Len(rt.log) = 2
    /\ Len(rt.waits) = 2


(***************************************************************************)
(* mockApiCall.                                                            *)
(***************************************************************************)
\* The error mockApiCall rejects with when its abort listener runs.
MockAbortError(impl) == IF impl = "inline" THEN AbortInline ELSE AbortUtils

\* The overload error mockApiCall rejects with.
MockOverloadError(impl) ==
    IF impl = "inline" THEN OverloadInline ELSE OverloadUtils

\* Whether a call made with the signal already raised rejects at once: the
\* wait of App.tsx calls its abort handler when signal.aborted is set; the
\* shared mockApiCall only adds a listener, which a raised signal never
\* calls.
MockObservesRaisedAlways(impl) == TRUE
MockObservesRaised(impl) == impl = "inline"

\* Whether the abort listener of the latency wait clears the timer and
\* rejects the call.
MockListenerIgnored(impl) == FALSE
MockListenerRejects(impl) == TRUE

\* Whether the latency wait removes its abort listener when its timer fires.
MockRemovesListener(impl) == impl = "inline"

\* MOCK_IMAGES, of which the shared mockApiCall draws one.
MockImages == {"pexels-photo-1167021"}

StartsWithData(url) == url \in {"data:image/jpeg"}

\* The response of a successful call number id for the request body; pick is
\* the stock image the shared mockApiCall draws.
MockResponse(impl, body, id, pick) ==
    Gen(id,
        IF impl = "inline"
        THEN IF StartsWithData(body.imageDataUrl) THEN "data:image/svg+xml"
             ELSE body.imageDataUrl
        ELSE pick,
        body.prompt, body.style, id)

(***************************************************************************)
(* The application: the component state, handleGenerate, handleAbort.      *)
(***************************************************************************)
MaxFlows == 2     \* generation flows started in one behaviour

MAX_ATTEMPTS == 3

Flows == 1..MaxFlows

Prompts == {" ", "warm portrait"}
Styles == {"Editorial", "Portrait"}

\* String.prototype.trim on the prompts of the model.
Trim(p) == IF p = " " THEN "" ELSE p

NoImage == ""
NoBody == [imageDataUrl |-> "", prompt |-> "", style |-> ""]

\* The identifier of the response of flow f (Date.now() at its completion).
ResultId(f) == 1000 + f

\* A flow: the handleGenerate call number f with its AbortController.
\*   pc         where the call is suspended: in the latency wait of
\*              mockApiCall, in the backoff wait of retryWithBackoff
\*   attempt    the attempt counter of retryWithBackoff
\*   aborted    controller.signal.aborted
\*   listeners  the abort listeners attached to the signal
\*   timers     the timers armed by the flow and still pending
\*   raisedAtCall  the signal was already raised when the mockApiCall in
\*              flight (or the last one) was called
\*   abortAt    where the flow was when the signal was raised
\*   last       how the last mockApiCall of the flow settled ("pending"
\*              while it is in flight)
\*   saves      the saveGeneration calls the flow made
\*   wrote      one of them wrote the history
\*   before     what localStorage held when the flow started
\*   outcome    how handleGenerate ended
\* When handleGenerate has returned, the controller, its signal and the
\* request are garbage: a finished flow keeps only how it ended.
FlowIdle ==
    [pc |-> "unstarted", attempt |-> 0, aborted |-> FALSE, listeners |-> 0,
     timers |-> 0, body |-> NoBody, raisedAtCall |-> FALSE,
     abortAt |-> "none", last |-> "none", saves |-> 0, wrote |-> FALSE,
     before |-> Absent, outcome |-> "none"]

FlowDone(fl, out, n) ==
    [FlowIdle EXCEPT !.pc = "done", !.aborted = fl.aborted,
                     !.raisedAtCall = fl.raisedAtCall,
                     !.abortAt = fl.abortAt, !.last = fl.last,
                     !.saves = n, !.wrote = fl.wrote, !.outcome = out]

AppStateInit ==
    [uploadedImage |-> NoImage, prompt |-> "", style |-> "Editorial",
     isLoading |-> FALSE, abortController |-> 0]

Init ==
    /\ variant \in Variants
    /\ storage = Stored(PriorList(MAX_HISTORY - 1))
    /\ run = NoRun
    /\ rt = RtNone
    /\ state = AppStateInit
    /\ retryAttempt = 0
    /\ mounted = TRUE
    /\ flow = [f \in Flows |-> FlowIdle]
    /\ upload = UploadNone

\* The updates every end of a flow makes: isLoading false, abortController
\* null.
EndedKeepsController(st) == [st EXCEPT !.isLoading = FALSE]
Ended(st) == [st EXCEPT !.isLoading = FALSE, !.abortController = 0]

Live(f) == flow[f].pc \in {"latency", "backoff"}

\* The flows are started in order.
NextFlow == Cardinality({f \in Flows : flow[f].pc # "unstarted"}) + 1


notApp == <<variant, run, rt>>

\* The check handleGenerate makes when retryWithBackoff has resolved:
\* if (!mounted.current || controller.signal.aborted) return;
DiscardsWhenUnmounted(isMounted, aborted) == ~isMounted
Discards(isMounted, aborted) == ~isMounted \/ aborted

\* The end of handleGenerate for flow f, whose retryWithBackoff call settled
\* with `settle`.  fl is the flow so far, st0 and ra0 the component state and
\* the counter so far; w1 and w2 tell whether the writes of saveGeneration
\* succeed (the basic variant saves twice).
HandleGenerateEndSavesAlways(f, fl, st0, ra0, settle, w1, w2) ==
    LET impl == ImplOf(variant)
        Leave(out) ==
            /\ flow' = [flow EXCEPT ![f] = FlowDone(fl, out, 0)]
            /\ state' = st0
            /\ retryAttempt' = ra0
            /\ storage' = storage
        Finish(out, sto, n, wr) ==
            /\ flow' = [flow EXCEPT ![f] =
                   FlowDone([fl EXCEPT !.wrote = wr], out, n)]
            /\ state' = Ended(st0)
            /\ retryAttempt' = 0
            /\ storage' = sto
    IN
    IF settle.kind = "resolved"
    THEN IF Discards(mounted, fl.aborted)
         THEN Leave("discarded")
         ELSE LET s1 == saveGeneration(impl, storage, settle.value, w1)
                  s2 == saveGeneration(impl, s1.storage, settle.value, w2)
              IN  IF s1.threw
                  THEN Finish("failed", s1.storage, 1, FALSE)
                  ELSE IF variant = "basic"
                       THEN Finish("succeeded", s2.storage, 2,
                                   s1.wrote \/ s2.wrote)
                       ELSE Finish("succeeded", s1.storage, 1, s1.wrote)
    ELSE IF impl = "inline"
         THEN IF ~mounted THEN Leave("silent")
              ELSE IF settle.error.name = "AbortError"
                   THEN Finish("aborted", storage, 0, FALSE)
                   ELSE Finish("failed",
                          saveGeneration(impl, storage,
                              StoreEntry(ResultId(f), ""), TRUE).storage,
                          1, TRUE)
         ELSE IF ~mounted \/ fl.aborted THEN Leave("silent")
              ELSE Finish("failed",
                          saveGeneration(impl, storage,
                              StoreEntry(ResultId(f), ""), TRUE).storage,
                          1, TRUE)

HandleGenerateEnd(f, fl, st0, ra0, settle, w1, w2) ==
    LET impl == ImplOf(variant)
        Leave(out) ==
            /\ flow' = [flow EXCEPT ![f] = FlowDone(fl, out, 0)]
            /\ state' = st0
            /\ retryAttempt' = ra0
            /\ storage' = storage
        Finish(out, sto, n, wr) ==
            /\ flow' = [flow EXCEPT ![f] =
                   FlowDone([fl EXCEPT !.wrote = wr], out, n)]
            /\ state' = Ended(st0)
            /\ retryAttempt' = 0
            /\ storage' = sto
    IN
    IF settle.kind = "resolved"
    THEN IF Discards(mounted, fl.aborted)
         THEN Leave("discarded")
         ELSE LET s1 == saveGeneration(impl, storage, settle.value, w1)
                  s2 == saveGeneration(impl, s1.storage, settle.value, w2)
              IN  IF s1.threw
                  THEN Finish("failed", s1.storage, 1, FALSE)
                  ELSE IF variant = "basic"
                       THEN Finish("succeeded", s2.storage, 2,
                                   s1.wrote \/ s2.wrote)
                       ELSE Finish("succeeded", s1.storage, 1, s1.wrote)
    ELSE IF impl = "inline"
         THEN IF ~mounted THEN Leave("silent")
              ELSE IF settle.error.name = "AbortError"
                   THEN Finish("aborted", storage, 0, FALSE)
                   ELSE Finish("failed", storage, 0, FALSE)
         ELSE IF ~mounted \/ fl.aborted THEN Leave("silent")
              ELSE Finish("failed", storage, 0, FALSE)

\* What follows when the mockApiCall of flow f settles with `thunk`:
\* retryWithBackoff returns the value, or runs its catch block and either
\* arms the backoff wait or rejects; handleGenerate ends when the call does.
AfterAttempt(f, fl, st0, ra0, thunk, w1, w2) ==
    LET impl == ImplOf(variant)
        c == RetryCatch(impl, fl.attempt, MAX_ATTEMPTS, fl.aborted,
                        thunk.error)
    IN
    IF thunk.ok
    THEN HandleGenerateEnd(f, fl, st0, ra0, Resolved(thunk.value), w1, w2)
    ELSE IF c.do = "backoff"
         THEN /\ flow' = [flow EXCEPT ![f] =
                    [fl EXCEPT !.pc = "backoff",
                               !.timers = @ + 1,
                               !.listeners =
                                   IF BackoffListens(impl) THEN @ + 1 ELSE @]]
              /\ state' = st0
              /\ retryAttempt' = ra0
              /\ storage' = storage
         ELSE HandleGenerateEnd(f, fl, st0, ra0, Rejected(c.error), w1, w2)

\* The thunk handleGenerate passes to retryWithBackoff, for flow f: it
\* increments retryAttempt and calls mockApiCall, which arms the latency
\* timer and adds its abort listener; a call that observes a raised signal
\* rejects at once.
BeginAttempt(f, fl, st0, ra0, w1, w2) ==
    LET impl == ImplOf(variant)
        ra1 == IF mounted THEN ra0 + 1 ELSE ra0
        called == [fl EXCEPT !.attempt = @ + 1,
                             !.raisedAtCall = fl.aborted,
                             !.last = "pending",
                             !.listeners = @ + 1]
    IN
    IF fl.aborted /\ MockObservesRaised(impl)
    THEN AfterAttempt(f, [called EXCEPT !.last = "abort"],
                      st0, ra1, ThunkErr(MockAbortError(impl)), w1, w2)
    ELSE /\ flow' = [flow EXCEPT ![f] = [called EXCEPT !.pc = "latency",
                                                       !.timers = @ + 1]]
         /\ state' = st0
         /\ retryAttempt' = ra1
         /\ storage' = storage

HandleGenerateWhileLoading ==
    /\ mounted
    /\ NextFlow \in Flows
    /\ IF state.uploadedImage = NoImage \/ Trim(state.prompt) = ""
       THEN UNCHANGED <<state, retryAttempt, storage, flow>>
       ELSE LET f == NextFlow
                fl == [FlowIdle EXCEPT
                          !.body = [imageDataUrl |-> state.uploadedImage,
                                    prompt |-> Trim(state.prompt),
                                    style |-> state.style],
                          !.before = storage]
                st0 == [state EXCEPT !.isLoading = TRUE,
                                     !.abortController = f]
            IN  BeginAttempt(f, fl, st0, 0, TRUE, TRUE)
    /\ UNCHANGED <<mounted, variant, run, rt, upload>>

\* handleGenerate: starts a flow when an image is uploaded, the trimmed
\* prompt is not empty and no flow is loading; changes nothing otherwise.
HandleGenerate ==
    /\ mounted
    /\ NextFlow \in Flows
    /\ IF state.uploadedImage = NoImage \/ Trim(state.prompt) = ""
          \/ state.isLoading
       THEN UNCHANGED <<state, retryAttempt, storage, flow>>
       ELSE LET f == NextFlow
                fl == [FlowIdle EXCEPT
                          !.body = [imageDataUrl |-> state.uploadedImage,
                                    prompt |-> Trim(state.prompt),
                                    style |-> state.style],
                          !.before = storage]
                st0 == [state EXCEPT !.isLoading = TRUE,
                                     !.abortController = f]
            IN  BeginAttempt(f, fl, st0, 0, TRUE, TRUE)
    /\ UNCHANGED <<mounted, variant, run, rt, upload>>

\* The latency timer of flow f fires: the wait resolves, and mockApiCall
\* draws its outcome.
LatencyElapsed(f, overloaded, pick, w1, w2) ==
    LET impl == ImplOf(variant)
        woke == [flow[f] EXCEPT !.timers = @ - 1,
                                !.listeners =
                                    IF MockRemovesListener(impl) THEN @ - 1
                                    ELSE @]
        thunk ==
            IF impl = "inline" /\ woke.aborted
            THEN ThunkErr(AbortInline)
            ELSE IF overloaded THEN ThunkErr(MockOverloadError(impl))
                 ELSE ThunkOk(MockResponse(impl, woke.body, ResultId(f), pick))
        how == IF ~thunk.ok /\ thunk.error.name = "AbortError" THEN "abort"
               ELSE IF thunk.ok THEN "result" ELSE "overload"
    IN
    /\ flow[f].pc = "latency"
    /\ AfterAttempt(f, [woke EXCEPT !.last = how],
                    state, retryAttempt, thunk, w1, w2)
    /\ UNCHANGED <<mounted, variant, run, rt, upload>>

\* The backoff timer of flow f fires: the loop of retryWithBackoff calls the
\* thunk again.
BackoffElapsed(f) ==
    LET impl == ImplOf(variant)
        woke == [flow[f] EXCEPT !.timers = @ - 1,
                                !.listeners =
                                    IF BackoffListens(impl) THEN @ - 1 ELSE @]
    IN
    /\ flow[f].pc = "backoff"
    /\ BeginAttempt(f, woke, state, retryAttempt, TRUE, TRUE)
    /\ UNCHANGED <<mounted, variant, run, rt, upload>>

\* handleAbort: raises the signal of the flow the state holds, which runs the
\* abort listeners, then clears isLoading, abortController and retryAttempt;
\* the rejections the listeners made run the catch blocks next.
HandleAbort ==
    LET impl == ImplOf(variant)
        f == state.abortController
        fl == [flow[f] EXCEPT !.aborted = TRUE, !.abortAt = flow[f].pc]
        st0 == Ended(state)
    IN
    /\ mounted
    /\ state.abortController # 0
    /\ IF ~flow[f].aborted /\ flow[f].pc = "latency"
          /\ MockListenerRejects(impl)
       THEN AfterAttempt(f, [fl EXCEPT !.timers = @ - 1,
                                       !.last = "abort"],
                         st0, 0, ThunkErr(MockAbortError(impl)), TRUE, TRUE)
       ELSE IF ~flow[f].aborted /\ flow[f].pc = "backoff"
               /\ BackoffListens(impl)
            THEN HandleGenerateEnd(f, [fl EXCEPT !.timers = @ - 1], st0, 0,
                                   Rejected(AbortInline), TRUE, TRUE)
            ELSE /\ flow' = [flow EXCEPT ![f] = fl]
                 /\ state' = st0
                 /\ retryAttempt' = 0
                 /\ storage' = storage
    /\ UNCHANGED <<mounted, variant, run, rt, upload>>

\* The component unmounts: the effect's cleanup clears mounted.current, and
\* the component's state is gone.  The timers of its flows stay armed.
Unmount ==
    /\ mounted
    /\ mounted' = FALSE
    /\ state' = AppStateInit
    /\ retryAttempt' = 0
    /\ UNCHANGED <<variant, storage, run, rt, flow, upload>>

\* The prompt box and the style buttons, disabled while a flow is loading.
SetPrompt(p) ==
    /\ mounted
    /\ ~state.isLoading
    /\ state' = [state EXCEPT !.prompt = p]
    /\ UNCHANGED <<variant, storage, run, rt, retryAttempt, mounted, flow, upload>>

SetStyle(y) ==
    /\ mounted
    /\ ~state.isLoading
    /\ state' = [state EXCEPT !.style = y]
    /\ UNCHANGED <<variant, storage, run, rt, retryAttempt, mounted, flow, upload>>

\* An image is uploaded (a data URL), or the uploaded image is removed.
SetImage(url) ==
    /\ mounted
    /\ variant = "inline" \/ ~state.isLoading
    /\ state' = [state EXCEPT !.uploadedImage = url]
    /\ UNCHANGED <<variant, storage, run, rt, retryAttempt, mounted, flow, upload>>

\* A history entry is selected: its prompt and style are restored.
SelectGeneration(g) ==
    /\ mounted
    /\ state' = [state EXCEPT !.prompt = g.prompt, !.style = g.style]
    /\ UNCHANGED <<variant, storage, run, rt, retryAttempt, mounted, flow, upload>>

\* The prompts and styles of the history entries shown.
Restorable ==
    IF History.isList
    THEN {[prompt |-> History.items[i].prompt, style |-> History.items[i].style] :
             i \in 1..Len(History.items)}
    ELSE {}

Next ==
    \/ HandleGenerate
    \/ \E f \in Flows, pick \in MockImages :
         \/ LatencyElapsed(f, TRUE, pick, TRUE, TRUE)
         \/ \E w1 \in BOOLEAN,
               w2 \in IF variant = "basic" THEN BOOLEAN ELSE {TRUE} :
              LatencyElapsed(f, FALSE, pick, w1, w2)
    \/ \E f \in Flows : BackoffElapsed(f)
    \/ HandleAbort
    \/ Unmount
    \/ \E p \in Prompts : SetPrompt(p)
    \/ \E y \in Styles : SetStyle(y)
    \/ \E url \in {NoImage, "data:image/jpeg"} : SetImage(url)
    \/ \E g \in Restorable : SelectGeneration(g)

Spec == Init /\ [][Next]_vars


HistoryIds == IdsOf(Ids(storage.items))

\* C2: once the AbortController of a flow has been aborted, saveGeneration
\* is never called for that flow, and the persisted history holds no entry
\* of it, in every variant of handleGenerate.
C2_AbortedFlowNeverSaves ==
    \A f \in Flows :
        flow[f].aborted => /\ flow[f].saves = 0
                           /\ ResultId(f) \notin HistoryIds

\* The result of a flow arrived after the flow was cancelled, and was
\* discarded.
C2_Witness ==
    \E f \in Flows :
        /\ flow[f].aborted
        /\ flow[f].last = "result"
        /\ flow[f].outcome = "discarded"
        /\ mounted

\* C7: if the token is raised while the latency wait of mockApiCall is
\* pending, the call rejects with an AbortError and delivers neither a
\* result nor an overload error, in both implementations.
C7_AbortInLatencyRejects ==
    \A f \in Flows :
        flow[f].abortAt = "latency" => /\ flow[f].last = "abort"
                                       /\ flow[f].pc = "done"
                                       /\ flow[f].timers = 0

\* The token was raised during the latency wait, in the shared mockApiCall.
C7_Witness ==
    \E f \in Flows :
        /\ ImplOf(variant) = "utils"
        /\ flow[f].abortAt = "latency"
        /\ flow[f].last = "abort"

\* C8: a mockApiCall called with a signal already raised rejects with an
\* AbortError and never completes with a result or an overload error, in
\* both implementations.
C8_RaisedAtCallRejects ==
    \A f \in Flows :
        flow[f].raisedAtCall => flow[f].last \in {"pending", "abort"}

\* C21: while the n-th attempt of a flow is in flight the attempt counter
\* shown to the user (retryAttempt) equals n, in every variant; the flows
\* looked at are those of the mounted component whose token is not raised.
C21_CounterShowsAttempt ==
    \A f \in Flows :
        (mounted /\ flow[f].pc = "latency" /\ ~flow[f].aborted)
            => retryAttempt = flow[f].attempt

\* C22: after a cancellable wait has ended nothing it armed is still
\* pending: a live flow holds exactly the one timer of the wait it is in, and
\* the one abort listener of that wait when the wait listens to the signal.
C22_WaitsDisarmed ==
    \A f \in Flows :
        Live(f) /\ ~flow[f].aborted
            => /\ flow[f].timers = 1
               /\ flow[f].listeners =
                     IF flow[f].pc = "latency"
                           \/ BackoffListens(ImplOf(variant))
                     THEN 1 ELSE 0

\* C28: retryAttempt stays between 0 and maxAttempts in every reachable
\* state, and never runs ahead of the attempt of the flow in progress: no
\* action of a cancelled flow increments the counter of a later flow.
C28_CounterWithinAttempts ==
    /\ retryAttempt \in 0..MAX_ATTEMPTS
    /\ \A f \in Flows :
          (mounted /\ Live(f) /\ ~flow[f].aborted)
              => retryAttempt <= flow[f].attempt

\* C29: isLoading is true exactly when abortController is not null, in every
\* reachable state of every variant.
C29_LoadingIffController ==
    state.isLoading <=> state.abortController # 0

\* A flow was cancelled while loading: both were cleared together.
C29_Witness ==
    /\ mounted
    /\ ~state.isLoading
    /\ state.abortController = 0
    /\ \E f \in Flows : flow[f].aborted /\ flow[f].abortAt = "latency"

\* The flows in progress whose token is not raised.
Unraised == {f \in Flows : Live(f) /\ ~flow[f].aborted}

\* C23: a flow is started only when an image is uploaded, the trimmed prompt
\* is not empty and no flow is loading, and only after every earlier flow
\* has ended or was cancelled; at most one flow with an unraised token
\* exists at any time.
C23_OneFlowAtATime ==
    /\ [](Cardinality(Unraised) <= 1)
    /\ [][\A f \in Flows :
            (flow[f].pc = "unstarted" /\ flow'[f].pc # "unstarted")
                => /\ state.uploadedImage # NoImage
                   /\ Trim(state.prompt) # ""
                   /\ ~state.isLoading
                   /\ Unraised = {}
                   /\ \A g \in Flows :
                         g # f => \/ flow[g].pc \in {"unstarted", "done"}
                                  \/ flow[g].aborted]_vars

\* A second flow is in progress while the first, cancelled during its
\* backoff wait, has not ended yet.
C23_Witness ==
    /\ Live(1)
    /\ flow[1].aborted
    /\ Live(2)
    /\ ~flow[2].aborted
    /\ state.isLoading

\* C25: a flow that ends Failed leaves the persisted history exactly as it
\* was when the flow started, and the history changes only in the step in
\* which a flow ends Succeeded on a result of its retryWithBackoff call.
C25_FailedFlowKeepsHistory ==
    [][/\ \A f \in Flows :
            (Live(f) /\ flow'[f].pc = "done" /\ flow'[f].outcome = "failed")
                => /\ storage' = flow[f].before
                   /\ flow'[f].saves = 0 \/ flow'[f].last = "result"
       /\ storage' # storage
            => \E f \in Flows : /\ Live(f)
                                 /\ flow'[f].pc = "done"
                                 /\ flow'[f].last = "result"
                                 /\ flow'[f].outcome = "succeeded"]_vars

\* A flow failed with the overload error at its third attempt, after an
\* earlier flow had succeeded.
C25_Witness ==
    /\ flow[1].outcome = "succeeded"
    /\ flow[1].wrote
    /\ flow[2].outcome = "failed"
    /\ flow[2].last = "overload"
    /\ storage.items[1].id = ResultId(1)

LatencyFires(f) ==
    \E pick \in MockImages :
        \/ LatencyElapsed(f, TRUE, pick, TRUE, TRUE)
        \/ \E w1 \in BOOLEAN,
              w2 \in IF variant = "basic" THEN BOOLEAN ELSE {TRUE} :
             LatencyElapsed(f, FALSE, pick, w1, w2)

TimerFires == \E f \in Flows : LatencyFires(f) \/ BackoffElapsed(f)

\* The steps that start, advance, cancel or abandon a flow.  The style
\* buttons and the history list are left out: they change only the style
\* and the prompt of the state, which no step of a flow in progress reads.
NextLive ==
    \/ HandleGenerate
    \/ \E f \in Flows : LatencyFires(f)
    \/ \E f \in Flows : BackoffElapsed(f)
    \/ HandleAbort
    \/ Unmount
    \/ \E p \in Prompts : SetPrompt(p)
    \/ \E url \in {NoImage, "data:image/jpeg"} : SetImage(url)

SpecLive == Init /\ [][NextLive]_vars /\ WF_vars(TimerFires)

\* How the retryWithBackoff call of an ended flow settled: with a result
\* (Succeeded), with the overload error of its last attempt (Failed) or
\* with an abort error (Cancelled).
Settled(f) ==
    /\ flow[f].pc = "done"
    /\ flow[f].last \in {"result", "overload", "abort"}
    /\ flow[f].outcome # "none"

\* C24: when every armed timer eventually fires, every started flow
\* eventually ends, settled in exactly one way it keeps from then on, after
\* at most MAX_ATTEMPTS attempts, and isLoading eventually becomes false
\* again: no flow stays in its latency or backoff wait forever.
C24_EveryFlowEnds ==
    /\ []<>(\A f \in Flows : ~Live(f))
    /\ state.isLoading ~> ~state.isLoading
    /\ [](\A f \in Flows : flow[f].attempt <= MAX_ATTEMPTS)
    /\ [](\A f \in Flows : flow[f].pc = "unstarted" \/ Live(f) \/ Settled(f))
    /\ [][\A f \in Flows : Settled(f) => flow'[f] = flow[f]]_vars

\* The first flow ended Failed at its last attempt and the second, started
\* after it, is in its backoff wait.
C24_Witness ==
    /\ Settled(1)
    /\ flow[1].last = "overload"
    /\ flow[1].outcome = "failed"
    /\ flow[2].pc = "backoff"
    /\ flow[2].attempt = MAX_ATTEMPTS - 1
    /\ state.isLoading

\* C13: a storage write that throws is absorbed by the History Store, so a
\* flow whose generation succeeded never ends as a failed one.
C13_WriteFailureAbsorbed ==
    \A f \in Flows : flow[f].outcome = "failed" => flow[f].last # "result"


(***************************************************************************)
(* Image preparer: validateImageFile and downscaleImage (shared utilities, *)
(* called by FileUpload.handleFile) and downscaleFile (App.tsx, called by  *)
(* onFileSelected).                                                        *)
(***************************************************************************)
EdgeSpread == 1   \* edges and sizes are tried this far around each landmark

MAX_FILE_SIZE == 10 * 1024 * 1024
MAX_IMAGE_DIMENSION == 1920
MAX_EDGE == 1920

\* Declared types of the files chosen.
FileTypes ==
    {"image/png", "image/jpeg", "image/jpg", "image/gif", "text/plain"}

\* file.type.match(/^image\/(png|jpeg|jpg)$/)
MatchesPngJpeg(type) == type \in {"image/png", "image/jpeg", "image/jpg"}

\* file.type.startsWith("image/")
StartsWithImage(type) ==
    type \in {"image/png", "image/jpeg", "image/jpg", "image/gif"}

FileSizes ==
    {MAX_FILE_SIZE + d : d \in (0 - EdgeSpread)..EdgeSpread}

\* Widths and heights of the images decoded.
Edges ==
    {e \in UNION {{m + d : d \in (0 - EdgeSpread)..EdgeSpread} :
                     m \in {2, 1080, 1920, 2304, 3000, 3840, 5000}} : e >= 1}

\* Lengths of the data URL the canvas encodes.
EncodedLengths ==
    {100, (4 * MAX_FILE_SIZE) \div 3, (4 * MAX_FILE_SIZE) \div 3 + 1}

\* validateImageFile: the error message, "" for null.
validateImageFile(type, size) ==
    IF ~MatchesPngJpeg(type) THEN "Please upload a PNG or JPG file"
    ELSE IF size > MAX_FILE_SIZE THEN "File size must be less than 10MB"
         ELSE ""

\* The largest odd divisor of n.
RECURSIVE OddPart(_)
OddPart(n) == IF n % 2 = 0 THEN OddPart(n \div 2) ELSE n

\* Whether the quotient a / b is a binary fraction, which the floating-point
\* division yields exactly (aspectRatio = width / height in downscaleImage,
\* scale = maxEdge / longEdge in downscaleFile).
Dyadic(a, b) == a % OddPart(b) = 0

\* Math.round of a * c / b as floating point computes it through an
\* intermediate quotient: the nearest integer; at a tie the upper one when
\* the intermediate quotient is exact, and either neighbour when it is
\* rounded.
RoundScaled(a, c, b, exact) ==
    LET q == (a * c) \div b IN
    IF (2 * a * c) % (2 * b) = b
    THEN IF exact THEN {q + 1} ELSE {q, q + 1}
    ELSE {(2 * a * c + b) \div (2 * b)}

Max(a, b) == IF a > b THEN a ELSE b

\* downscaleFile: the target width and height for an image width x height.
TargetsInlineAlwaysScales(width, height) ==
    LET longEdge == Max(width, height) IN
    {[w |-> tw, h |-> th] :
        tw \in RoundScaled(width, MAX_EDGE, longEdge,
                           Dyadic(MAX_EDGE, longEdge)),
        th \in RoundScaled(height, MAX_EDGE, longEdge,
                           Dyadic(MAX_EDGE, longEdge))}
TargetsInline(width, height) ==
    LET longEdge == Max(width, height) IN
    IF longEdge > MAX_EDGE
    THEN {[w |-> tw, h |-> th] :
             tw \in RoundScaled(width, MAX_EDGE, longEdge,
                                Dyadic(MAX_EDGE, longEdge)),
             th \in RoundScaled(height, MAX_EDGE, longEdge,
                                Dyadic(MAX_EDGE, longEdge))}
    ELSE {[w |-> width, h |-> height]}

\* downscaleImage: the new width and height for an image width x height.
TargetsSharedSwapsRatio(width, height) ==
    IF width > MAX_IMAGE_DIMENSION \/ height > MAX_IMAGE_DIMENSION
    THEN IF width > height
         THEN {[w |-> MAX_IMAGE_DIMENSION, h |-> th] :
                  th \in RoundScaled(width, MAX_IMAGE_DIMENSION, height,
                                     Dyadic(width, height))}
         ELSE {[w |-> tw, h |-> MAX_IMAGE_DIMENSION] :
                  tw \in RoundScaled(height, MAX_IMAGE_DIMENSION, width,
                                     Dyadic(width, height))}
    ELSE {[w |-> width, h |-> height]}
TargetsShared(width, height) ==
    IF width > MAX_IMAGE_DIMENSION \/ height > MAX_IMAGE_DIMENSION
    THEN IF width > height
         THEN {[w |-> MAX_IMAGE_DIMENSION, h |-> th] :
                  th \in RoundScaled(height, MAX_IMAGE_DIMENSION, width,
                                     Dyadic(width, height))}
         ELSE {[w |-> tw, h |-> MAX_IMAGE_DIMENSION] :
                  tw \in RoundScaled(width, MAX_IMAGE_DIMENSION, height,
                                     Dyadic(width, height))}
    ELSE {[w |-> width, h |-> height]}

Targets(path, width, height) ==
    IF path = "inline" THEN TargetsInline(width, height)
    ELSE TargetsShared(width, height)

\* estimatedSize > MAX_FILE_SIZE, with estimatedSize = dataUrl.length * 0.75
EstimateTooLarge(len) == 3 * len > 4 * MAX_FILE_SIZE

(***************************************************************************)
(* Image preparer harness: one file of any declared type and size goes     *)
(* through one of the two upload paths; the browser decodes it or fails    *)
(* to, with any width and height.                                          *)
(*   path      "shared": FileUpload.handleFile; "inline": onFileSelected   *)
(*   pc        "chosen", "decoding" (Image load pending), "done"           *)
(*   decoded   the file was handed to the decoder (img.src was set)        *)
(*   acquired, released   object URLs created and revoked                  *)
(*   width, height, target   the decoded image and the canvas size         *)
(*   outcome   how the upload ended                                        *)
(***************************************************************************)
UploadPaths == {"shared", "inline"}

UploadInit ==
    /\ variant = "inline"
    /\ storage = Absent
    /\ run = NoRun
    /\ rt = RtNone
    /\ state = StateNone
    /\ retryAttempt = 0
    /\ mounted = TRUE
    /\ flow = FlowNone
    /\ \E path \in UploadPaths, type \in FileTypes, size \in FileSizes :
         upload = [pc |-> "chosen", path |-> path, type |-> type,
                   size |-> size, decoded |-> FALSE, acquired |-> 0,
                   released |-> 0, width |-> 0, height |-> 0,
                   target |-> [w |-> 0, h |-> 0], outcome |-> "none"]

notUpload ==
    <<variant, storage, run, rt, state, retryAttempt, mounted, flow>>

\* FileUpload.handleFile up to the decode: validateImageFile, then
\* downscaleImage, which gives up when the canvas has no 2d context and
\* otherwise creates the object URL and sets img.src.
HandleFile(ctxOk) ==
    /\ upload.pc = "chosen"
    /\ upload.path = "shared"
    /\ upload' =
         IF validateImageFile(upload.type, upload.size) # ""
         THEN [upload EXCEPT !.pc = "done", !.outcome = "invalid"]
         ELSE IF ~ctxOk
              THEN [upload EXCEPT !.pc = "done", !.outcome = "noContext"]
              ELSE [upload EXCEPT !.pc = "decoding", !.decoded = TRUE,
                                  !.acquired = @ + 1]
    /\ UNCHANGED notUpload

\* onFileSelected up to the decode: downscaleFile throws on a type that does
\* not start with "image/", and otherwise creates the object URL and sets
\* i.src.
OnFileSelected ==
    /\ upload.pc = "chosen"
    /\ upload.path = "inline"
    /\ upload' =
         IF ~StartsWithImage(upload.type)
         THEN [upload EXCEPT !.pc = "done", !.outcome = "invalid"]
         ELSE [upload EXCEPT !.pc = "decoding", !.decoded = TRUE,
                             !.acquired = @ + 1]
    /\ UNCHANGED notUpload

\* Whether the preparer revokes its object URL when it settles: downscaleFile
\* does in its finally block, downscaleImage never does.
Revokes(path) == path = "inline"

\* img.onerror: the decode failed.
ImageError ==
    /\ upload.pc = "decoding"
    /\ upload' = [upload EXCEPT !.pc = "done", !.outcome = "decodeError",
                                !.released =
                                    IF Revokes(upload.path) THEN @ + 1 ELSE @]
    /\ UNCHANGED notUpload

\* img.onload: the image decoded as width x height; the preparer computes the
\* target size, draws, encodes a data URL of length len, and (downscaleImage
\* only) rejects it when its estimated size exceeds the limit.
ImageLoaded(width, height, len) ==
    /\ upload.pc = "decoding"
    /\ upload.path = "inline" => len = 100
    /\ \E t \in Targets(upload.path, width, height) :
         upload' = [upload EXCEPT
                       !.pc = "done", !.width = width, !.height = height,
                       !.target = t,
                       !.outcome =
                           IF upload.path = "shared" /\ EstimateTooLarge(len)
                           THEN "tooLarge" ELSE "ready",
                       !.released =
                           IF Revokes(upload.path) THEN @ + 1 ELSE @]
    /\ UNCHANGED notUpload

UploadNext ==
    \/ \E ctxOk \in BOOLEAN : HandleFile(ctxOk)
    \/ OnFileSelected
    \/ ImageError
    \/ \E width \in Edges, height \in Edges, len \in EncodedLengths :
         ImageLoaded(width, height, len)

SpecUpload == UploadInit /\ [][UploadNext]_vars

\* The image was decoded and its target size computed.
Sized == upload.pc = "done" /\ upload.outcome \in {"ready", "tooLarge"}

\* C15: in every upload path a file is handed to the decoder only if its
\* declared type is PNG or JPEG and its size is strictly under 10 MiB; every
\* other file is rejected with a validation error.
C15_OnlyValidFilesDecoded ==
    upload.pc # "none"
        => /\ upload.decoded => /\ MatchesPngJpeg(upload.type)
                                /\ upload.size < MAX_FILE_SIZE
           /\ (upload.pc = "done" /\ ~upload.decoded
                 /\ upload.outcome # "noContext")
                 => upload.outcome = "invalid"

\* C16: for an image whose longer edge is at most 1920, the target size is
\* the width and height of the image, in downscaleImage and downscaleFile.
C16_SmallImagesUnchanged ==
    (Sized /\ Max(upload.width, upload.height) <= 1920)
        => upload.target = [w |-> upload.width, h |-> upload.height]

\* A 1920 x 1080 image went through downscaleFile unchanged.
C16_Witness ==
    /\ Sized
    /\ upload.path = "inline"
    /\ upload.width = 1920
    /\ upload.height = 1080
    /\ upload.target = [w |-> 1920, h |-> 1080]

Abs(x) == IF x < 0 THEN 0 - x ELSE x

\* C17: for an image whose longer edge exceeds 1920, the target's longer
\* edge is exactly 1920 and its shorter edge is within 1 pixel of
\* shorter * 1920 / longer, in downscaleImage and downscaleFile.
C17_LargeImagesScaled ==
    (Sized /\ Max(upload.width, upload.height) > 1920)
        => LET wide == upload.width >= upload.height
               long == IF wide THEN upload.width ELSE upload.height
               short == IF wide THEN upload.height ELSE upload.width
               tLong == IF wide THEN upload.target.w ELSE upload.target.h
               tShort == IF wide THEN upload.target.h ELSE upload.target.w
           IN  /\ tLong = 1920
               /\ tShort <= 1920
               /\ Abs(tShort * long - short * 1920) <= long

\* A 5000 x 3000 image came out of downscaleImage as 1920 x 1152.
C17_Witness ==
    /\ Sized
    /\ upload.path = "shared"
    /\ upload.width = 5000
    /\ upload.height = 3000
    /\ upload.target = [w |-> 1920, h |-> 1152]

\* C18: when an upload has ended, on any exit path, every object URL the
\* preparer created has been revoked, in downscaleFile and downscaleImage.
C18_HandleReleased ==
    upload.pc = "done" => upload.released = upload.acquired

\* C30: for every image whose width and height are at least 1, both target
\* dimensions the image preparer computes are at least 1 pixel.
C30_TargetsAtLeastOne ==
    (Sized /\ upload.width >= 1 /\ upload.height >= 1)
        => upload.target.w >= 1 /\ upload.target.h >= 1

====
